---------------------------- MODULE Spec2Model ----------------------------
(***************************************************************************)
(* Poll Integrity Engine of alx-polly: input sanitization and validation   *)
(* (lib/validation.ts), the poll and vote server actions                   *)
(* (app/lib/actions/poll-actions.ts, admin-actions.ts), the API routes     *)
(* that duplicate them, and the polls / votes tables of the README schema. *)
(*                                                                         *)
(* A JavaScript string is a sequence of one-character strings.  A value    *)
(* that is not a string (null, undefined, a number) is Undefined.          *)
(***************************************************************************)
EXTENDS Integers, Sequences, FiniteSets, Bags, TLC

(***************************************************************************)
(* Characters                                                              *)
(***************************************************************************)
LowerCase ==
    <<"a","b","c","d","e","f","g","h","i","j","k","l","m",
      "n","o","p","q","r","s","t","u","v","w","x","y","z">>

UpperCase ==
    <<"A","B","C","D","E","F","G","H","I","J","K","L","M",
      "N","O","P","Q","R","S","T","U","V","W","X","Y","Z">>

Digits == {"0","1","2","3","4","5","6","7","8","9"}

Range(f) == {f[i] : i \in DOMAIN f}

\* the i flag of a regular expression: compare characters ignoring case
ToLower(c) ==
    IF c \in Range(UpperCase)
    THEN LowerCase[CHOOSE i \in DOMAIN UpperCase : UpperCase[i] = c]
    ELSE c

\* \w of a JavaScript regular expression: [A-Za-z0-9_]
IsWordChar(c) == c \in Range(LowerCase) \cup Range(UpperCase) \cup Digits \cup {"_"}

\* [0-9a-f] under the i flag
IsHexChar(c) == ToLower(c) \in Digits \cup {"a","b","c","d","e","f"}

\* white space removed by String.prototype.trim
IsSpace(c) == c \in {" ", "\t", "\n", "\r"}

\* a value of a type other than string
Undefined == <<"undefined">>

IsString(v) == v # Undefined

\* n copies of the character c
Repeat(c, n) == [i \in 1..n |-> c]

(***************************************************************************)
(* sanitizeString                                                          *)
(***************************************************************************)
JavascriptLiteral == <<"j","a","v","a","s","c","r","i","p","t",":">>

\* the subsequence of s at the positions that are not in removed
DropPositions(s, removed) ==
    LET marked == [i \in 1..Len(s) |-> <<s[i], i \in removed>>]
        kept == SelectSeq(marked, LAMBDA m : ~m[2])
    IN  [i \in 1..Len(kept) |-> kept[i][1]]

\* .replace(/[<>]/g, '')
RemoveAngleBrackets(s) == SelectSeq(s, LAMBDA c : c \notin {"<", ">"})

\* /javascript:/i matches s at position k
JavascriptAt(s, k) ==
    /\ k >= 1
    /\ k + Len(JavascriptLiteral) - 1 <= Len(s)
    /\ \A i \in 1..Len(JavascriptLiteral) : ToLower(s[k + i - 1]) = JavascriptLiteral[i]

\* .replace(/javascript:/gi, ''): one left-to-right scan that removes every
\* match.  The literal has a single 'j', so two occurrences never overlap and
\* the scan removes exactly the positions covered by an occurrence.
RemoveJavascript(s) ==
    LET starts == {k \in 1..Len(s) : JavascriptAt(s, k)}
    IN  DropPositions(s, {i \in 1..Len(s) :
            \E k \in starts : k <= i /\ i <= k + Len(JavascriptLiteral) - 1})

\* length of the longest run of word characters of s that starts at position i
WordRun(s, i) ==
    LET stops == {j \in i..Len(s) : ~IsWordChar(s[j])}
        end == IF stops = {} THEN Len(s) + 1
               ELSE CHOOSE j \in stops : \A k \in stops : j <= k
    IN  end - i

\* length of the match of /on\w+=/i at position k of s, 0 when there is none
\* (\w+ is greedy and '=' is not a word character, so a match is "on", the
\* whole run of word characters that follows, then '=')
EventHandlerAt(s, k) ==
    IF /\ k >= 1
       /\ k + 3 <= Len(s)
       /\ ToLower(s[k]) = "o"
       /\ ToLower(s[k + 1]) = "n"
       /\ IsWordChar(s[k + 2])
       /\ k + 2 + WordRun(s, k + 2) <= Len(s)
       /\ s[k + 2 + WordRun(s, k + 2)] = "="
    THEN 3 + WordRun(s, k + 2)
    ELSE 0

\* .replace(/on\w+=/gi, ''): one left-to-right scan that removes every match.
\* An occurrence that starts inside an earlier one ends at the same '=', so
\* the scan removes exactly the positions covered by an occurrence.
RemoveEventHandlers(s) ==
    LET starts == {k \in 1..Len(s) : EventHandlerAt(s, k) > 0}
    IN  DropPositions(s, {i \in 1..Len(s) :
            \E k \in starts : k <= i /\ i <= k + EventHandlerAt(s, k) - 1})

\* .trim()
Trim(s) ==
    LET solid == {i \in 1..Len(s) : ~IsSpace(s[i])}
    IN  IF solid = {} THEN <<>>
        ELSE SubSeq(s, CHOOSE i \in solid : \A j \in solid : i <= j,
                       CHOOSE i \in solid : \A j \in solid : i >= j)

sanitizeString(input) ==
    IF ~IsString(input) THEN <<>>
    ELSE Trim(RemoveEventHandlers(RemoveJavascript(RemoveAngleBrackets(input))))

(***************************************************************************)
(* Validators.  A validation result is [isValid, error] (validatePollOptions *)
(* adds sanitizedOptions); the error of a success is NoError.               *)
(***************************************************************************)
NoError == "null"

MinQuestionLength == 3

MaxQuestionLength == 500

MinOptions == 2

MaxOptions == 10

MaxOptionLength == 200

validatePollQuestion(question) ==
    IF ~IsString(question) \/ question = <<>>
    THEN [isValid |-> FALSE, error |-> "Question is required."]
    ELSE IF Len(sanitizeString(question)) < MinQuestionLength
    THEN [isValid |-> FALSE, error |-> "Question must be at least 3 characters long."]
    ELSE IF Len(sanitizeString(question)) > MaxQuestionLength
    THEN [isValid |-> FALSE, error |-> "Question must be less than 500 characters."]
    ELSE [isValid |-> TRUE, error |-> NoError]

\* a value that is not an array
NotAnArray == << <<"not-an-array">> >>

\* options.map(sanitize).filter(option => option.length > 0)
SanitizeOptions(options) ==
    SelectSeq([i \in 1..Len(options) |-> sanitizeString(options[i])],
              LAMBDA option : Len(option) > 0)

\* validatePollOptions without its check for duplicates
validatePollOptions_NoDuplicateCheck(options) ==
    LET sanitizedOptions == SanitizeOptions(options)
        Failure(msg) == [isValid |-> FALSE, error |-> msg, sanitizedOptions |-> <<>>]
    IN  IF options = NotAnArray
        THEN Failure("Options must be an array.")
        ELSE IF Len(options) < MinOptions
        THEN Failure("At least 2 options are required.")
        ELSE IF Len(options) > MaxOptions
        THEN Failure("Maximum 10 options allowed.")
        ELSE IF Len(sanitizedOptions) < MinOptions
        THEN Failure("At least 2 valid options are required.")
        ELSE IF \E i \in 1..Len(sanitizedOptions) : Len(sanitizedOptions[i]) > MaxOptionLength
        THEN Failure("Each option must be less than 200 characters.")
        ELSE [isValid |-> TRUE, error |-> NoError, sanitizedOptions |-> sanitizedOptions]

\* validatePollOptions with the length check ahead of the duplicate check
validatePollOptions_LengthFirst(options) ==
    LET sanitizedOptions == SanitizeOptions(options)
        Failure(msg) == [isValid |-> FALSE, error |-> msg, sanitizedOptions |-> <<>>]
    IN  IF options = NotAnArray
        THEN Failure("Options must be an array.")
        ELSE IF Len(options) < MinOptions
        THEN Failure("At least 2 options are required.")
        ELSE IF Len(options) > MaxOptions
        THEN Failure("Maximum 10 options allowed.")
        ELSE IF Len(sanitizedOptions) < MinOptions
        THEN Failure("At least 2 valid options are required.")
        ELSE IF \E i \in 1..Len(sanitizedOptions) : Len(sanitizedOptions[i]) > MaxOptionLength
        THEN Failure("Each option must be less than 200 characters.")
        ELSE IF Cardinality(Range(sanitizedOptions)) # Len(sanitizedOptions)
        THEN Failure("Duplicate options are not allowed.")
        ELSE [isValid |-> TRUE, error |-> NoError, sanitizedOptions |-> sanitizedOptions]

validatePollOptions(options) ==
    LET sanitizedOptions == SanitizeOptions(options)
        Failure(msg) == [isValid |-> FALSE, error |-> msg, sanitizedOptions |-> <<>>]
    IN  IF options = NotAnArray
        THEN Failure("Options must be an array.")
        ELSE IF Len(options) < MinOptions
        THEN Failure("At least 2 options are required.")
        ELSE IF Len(options) > MaxOptions
        THEN Failure("Maximum 10 options allowed.")
        ELSE IF Len(sanitizedOptions) < MinOptions
        THEN Failure("At least 2 valid options are required.")
        ELSE IF Cardinality(Range(sanitizedOptions)) # Len(sanitizedOptions)
        THEN Failure("Duplicate options are not allowed.")
        ELSE IF \E i \in 1..Len(sanitizedOptions) : Len(sanitizedOptions[i]) > MaxOptionLength
        THEN Failure("Each option must be less than 200 characters.")
        ELSE [isValid |-> TRUE, error |-> NoError, sanitizedOptions |-> sanitizedOptions]

\* /^[0-9a-f]{8}-[0-9a-f]{4}-[0-9a-f]{4}-[0-9a-f]{4}-[0-9a-f]{12}$/i
UuidDashes == {9, 14, 19, 24}

UuidLength == 36

MatchesUuidRegex(id) ==
    /\ Len(id) = UuidLength
    /\ \A i \in 1..UuidLength :
          IF i \in UuidDashes THEN id[i] = "-" ELSE IsHexChar(id[i])

validatePollId(id) ==
    IF ~IsString(id) \/ id = <<>>
    THEN [isValid |-> FALSE, error |-> "Invalid poll ID."]
    ELSE IF ~MatchesUuidRegex(id)
    THEN [isValid |-> FALSE, error |-> "Invalid poll ID format."]
    ELSE [isValid |-> TRUE, error |-> NoError]

\* A JavaScript number n + h/2 is [whole |-> n, half |-> h]: the integers and
\* the half-integers are enough to tell Number.isInteger apart.
Num(n) == [whole |-> n, half |-> 0]

IsInteger(index) == index.half = 0

validateOptionIndex(index, maxOptions) ==
    IF ~IsInteger(index)
    THEN [isValid |-> FALSE, error |-> "Invalid option index."]
    ELSE IF index.whole < 0 \/ index.whole >= maxOptions
    THEN [isValid |-> FALSE, error |-> "Option index out of bounds."]
    ELSE [isValid |-> TRUE, error |-> NoError]

(***************************************************************************)
(* Bounds of the model                                                     *)
(***************************************************************************)
MaxPolls == 1

MaxVotes == 3

NumCalls == 2

\* the most polls in the table that the listings are read from
MaxListed == 3

\* the longest list of options composed for validatePollOptions
MaxComposed == 3

\* the most events a component handles between two renders
MaxPending == 2

\* the most submit events an authentication form is followed through
MaxSubmits == 4

\* the most auth state change events an AuthProvider is followed through
MaxEvents == 3

\* the most option fields the creation form is followed to
MaxFields == 12

MaxPieces == 3

(***************************************************************************)
(* Requests: the arguments the operations are called with                  *)
(***************************************************************************)
QuestionClean == <<"a", "b", "c">>

QuestionMarkup == <<" ", "<", "b", ">", "a", "b", "c">>

QuestionShort == <<"<", "a", "b", ">">>

QuestionLong == Repeat("a", MaxQuestionLength + 1)

Questions == {QuestionClean, QuestionMarkup, QuestionShort, QuestionLong, <<>>, Undefined}

OptionsTwo == << <<"a">>, <<"b">> >>

OptionsThree == << <<"a">>, <<"b">>, <<"c">> >>

OptionsMarkup == << <<"<", "a", ">">>, <<"<", ">">>, <<" ", "b">> >>

OptionsOne == << <<"a">>, <<>> >>

OptionsDuplicate == << <<"a">>, <<" ", "a">> >>

OptionsTen == [i \in 1..MaxOptions |-> Repeat("a", i)]

OptionsEleven == [i \in 1..(MaxOptions + 1) |-> Repeat("a", i)]

OptionsTooLong == << <<"a">>, Repeat("b", MaxOptionLength + 1) >>

OptionLists ==
    {OptionsTwo, OptionsThree, OptionsMarkup, OptionsOne, OptionsDuplicate,
     OptionsTen, OptionsEleven, OptionsTooLong}

NotAUuid == <<"n", "o", "t", "-", "a", "-", "u", "u", "i", "d">>

\* gen_random_uuid(): the n-th identifier handed out by the polls table
Uuid(n) ==
    [i \in 1..UuidLength |->
        IF i \in UuidDashes THEN "-"
        ELSE IF i = UuidLength THEN CHOOSE d \in Digits : d = ToString(n)
        ELSE "0"]

\* the identifiers of the polls that can exist, one that never does, and text
\* that is not an identifier
PollIds == {Uuid(n) : n \in 1..(MaxPolls + 1)} \cup {NotAUuid}

OptionIndexes == {Num(0), Num(2), Num(-1), [whole |-> 1, half |-> 1]}

\* formData.getAll("options").filter(Boolean): empty strings are dropped
FormDataOptions(options) ==
    IF options = NotAnArray THEN <<>>
    ELSE SelectSeq(options, LAMBDA option : option # <<>>)

\* The validators applied to the request arguments, tabulated:
\* questionValidations[q] is validatePollQuestion(q), and so on.
questionValidations == [question \in Questions |-> validatePollQuestion(question)]

optionsValidations ==
    [options \in OptionLists \cup {FormDataOptions(o) : o \in OptionLists} |->
        validatePollOptions(options)]

FewQuestions == {QuestionClean}

FewOptionLists == {OptionsTwo, OptionsThree}

\* the first poll created: the one poll that concurrent calls contend for
FewPollIds == {Uuid(1)}

FewOptionIndexes == {Num(0), Num(2)}

pollIdValidations == [pollId \in PollIds |-> validatePollId(pollId)]

(***************************************************************************)
(* State.  polls and votes are the two tables of the README schema: polls  *)
(* is the set of its rows, votes the bag of the rows of the votes table    *)
(* without their id (two votes may agree in every other column).  calls    *)
(* holds the submitVote invocations that are suspended at an await between *)
(* two storage requests; ret is the response on its way to the caller of   *)
(* the invocation that completed last; probe is the argument and result of *)
(* a validation function applied on its own; ui is the state of the client *)
(* component that is mounted in the browser.                               *)
(***************************************************************************)
VARIABLES polls, votes, nextPollId, calls, ret, probe, ui

vars == <<polls, votes, nextPollId, calls, ret, probe, ui>>

storage == <<polls, votes, nextPollId>>

Procs == 1..NumCalls

\* SQL NULL, JavaScript null
Null == "null"

\* supabase.auth.getUser(): the user of the request's session, or null
NoUser == [id |-> Null, email |-> Null]

Alice == [id |-> "u1", email |-> "alice@example.com"]

Admin == [id |-> "u2", email |-> "admin@example.com"]

NoEmail == [id |-> "u3", email |-> Null]

ADMIN_EMAILS == {"admin@example.com"}

Sessions == {NoUser, Alice, Admin}

FewSessions == {NoUser, Alice}

Idle == [pc |-> "idle", entry |-> Null, user |-> NoUser, pollId |-> <<>>, optionIndex |-> 0]

NoRet == [op |-> "none", entry |-> Null, user |-> NoUser, pollId |-> <<>>,
          error |-> NoError, status |-> 0, data |-> <<>>]

\* no client component is mounted
NoComponent == [component |-> "none"]

NoProbe == [fn |-> "none", input |-> <<>>, output |-> <<>>, again |-> <<>>, stage |-> 0]

SystemInit ==
    /\ polls = {}
    /\ votes = EmptyBag
    /\ nextPollId = 1
    /\ calls = [p \in Procs |-> Idle]
    /\ ret = NoRet

Init == SystemInit /\ probe = NoProbe /\ ui = NoComponent

(***************************************************************************)
(* The storage interface: PostgREST requests against the README schema     *)
(* with its row level security policies.                                   *)
(***************************************************************************)
\* id UUID: an equality filter on the column fails for text that is not a uuid
UuidSyntaxError == "invalid input syntax for type uuid"

IsUuidText(text) == MatchesUuidRegex(text)

ForeignKeyError == "insert or update on table \"votes\" violates foreign key constraint"

SingleRowError == "JSON object requested, multiple (or no) rows returned"

\* .single(): the row when the request yields exactly one, else an error
Single(rows) ==
    IF Cardinality(rows) = 1
    THEN [data |-> rows, error |-> NoError]
    ELSE [data |-> {}, error |-> SingleRowError]

\* from("polls").select().eq("id", id)
PollsById(id) == {poll \in polls : poll.id = id}

\* the rows of the votes table; id tells the rows of equal votes apart
VoteRows ==
    UNION {{[id |-> k, poll_id |-> vote.poll_id, user_id |-> vote.user_id,
             option_index |-> vote.option_index] : k \in 1..votes[vote]} :
           vote \in DOMAIN votes}

\* from("votes").select().eq("poll_id", pollId)
VotesOfPoll(pollId) == {vote \in VoteRows : vote.poll_id = pollId}

\* from("votes").select().eq("poll_id", pollId).eq("user_id", userId)
VotesOfUser(pollId, userId) ==
    {vote \in VoteRows : vote.poll_id = pollId /\ vote.user_id = userId}

\* CREATE POLICY "Users can update own polls" / "Users can delete own polls":
\* USING (auth.uid() = user_id)
OwnPolicy(poll, user) == user.id # Null /\ poll.user_id = user.id

\* from("polls").delete() with a filter that matches the rows matched, run as
\* user: removes the matched rows that the delete policy admits and, by
\* poll_id REFERENCES polls(id) ON DELETE CASCADE, their votes
DeletePolls(matched, user) ==
    LET gone == {poll \in matched : OwnPolicy(poll, user)}
    IN  /\ polls' = polls \ gone
        /\ votes' = [vote \in {v \in DOMAIN votes : \A poll \in gone : v.poll_id # poll.id}
                         |-> votes[vote]]

\* from("polls").update(values) with a filter that matches the rows matched,
\* run as user
UpdatePolls(matched, user, question, options) ==
    polls' = {IF poll \in matched /\ OwnPolicy(poll, user)
              THEN [poll EXCEPT !.question = question, !.options = options]
              ELSE poll : poll \in polls}

\* the rows that such an update returns to .select()
UpdatedPolls(matched, user) ==
    {poll \in polls' : \E old \in matched : old.id = poll.id /\ OwnPolicy(old, user)}

\* from("polls").insert([{user_id, question, options}]): id and created_at
\* take their column defaults (gen_random_uuid(), NOW())
InsertPoll(userId, question, options) ==
    /\ polls' = polls \cup {[id |-> Uuid(nextPollId), user_id |-> userId,
                             question |-> question, options |-> options,
                             created_at |-> nextPollId]}
    /\ nextPollId' = nextPollId + 1

\* from("votes").insert([{poll_id, user_id, option_index}])
InsertVote(pollId, userId, optionIndex) ==
    votes' = votes (+) SetToBag({[poll_id |-> pollId, user_id |-> userId,
                                  option_index |-> optionIndex]})

(***************************************************************************)
(* Poll lifecycle: the server actions of poll-actions.ts                   *)
(***************************************************************************)
\* the response of a server action (status 0) or of a route handler
Response(op, entry, user, pollId, error, status, data) ==
    [op |-> op, entry |-> entry, user |-> user, pollId |-> pollId,
     error |-> error, status |-> status, data |-> data]

\* createPoll without its check for a session user
createPoll_NoLoginCheck(user, question, formOptions) ==
    LET options == FormDataOptions(formOptions)
        questionValidation == questionValidations[question]
        optionsValidation == optionsValidations[options]
        Return(error) == Response("createPoll", "action", user, <<>>, error, 0, <<>>)
    IN  /\ nextPollId <= MaxPolls
        /\ IF ~questionValidation.isValid
           THEN ret' = Return(questionValidation.error) /\ UNCHANGED storage
           ELSE IF ~optionsValidation.isValid
           THEN ret' = Return(optionsValidation.error) /\ UNCHANGED storage
           ELSE /\ InsertPoll(user.id, question, optionsValidation.sanitizedOptions)
                /\ ret' = Return(NoError)
                /\ UNCHANGED votes
        /\ UNCHANGED <<calls, probe, ui>>

createPoll(user, question, formOptions) ==
    LET options == FormDataOptions(formOptions)
        questionValidation == questionValidations[question]
        optionsValidation == optionsValidations[options]
        Return(error) == Response("createPoll", "action", user, <<>>, error, 0, <<>>)
    IN  /\ nextPollId <= MaxPolls
        /\ IF ~questionValidation.isValid
           THEN ret' = Return(questionValidation.error) /\ UNCHANGED storage
           ELSE IF ~optionsValidation.isValid
           THEN ret' = Return(optionsValidation.error) /\ UNCHANGED storage
           ELSE IF user = NoUser
           THEN ret' = Return("You must be logged in to create a poll.") /\ UNCHANGED storage
           ELSE /\ InsertPoll(user.id, question, optionsValidation.sanitizedOptions)
                /\ ret' = Return(NoError)
                /\ UNCHANGED votes
        /\ UNCHANGED <<calls, probe, ui>>

\* updatePoll that clears the votes of the poll it changes
updatePoll_ClearingVotes(user, pollId, question, formOptions) ==
    LET options == FormDataOptions(formOptions)
        pollIdValidation == pollIdValidations[pollId]
        questionValidation == questionValidations[question]
        optionsValidation == optionsValidations[options]
        matched == {poll \in polls : poll.id = pollId /\ poll.user_id = user.id}
        Return(error) == Response("updatePoll", "action", user, pollId, error, 0, <<>>)
    IN  /\ IF ~pollIdValidation.isValid
           THEN ret' = Return(pollIdValidation.error) /\ UNCHANGED storage
           ELSE IF ~questionValidation.isValid
           THEN ret' = Return(questionValidation.error) /\ UNCHANGED storage
           ELSE IF ~optionsValidation.isValid
           THEN ret' = Return(optionsValidation.error) /\ UNCHANGED storage
           ELSE IF user = NoUser
           THEN ret' = Return("You must be logged in to update a poll.") /\ UNCHANGED storage
           ELSE /\ UpdatePolls(matched, user, question, optionsValidation.sanitizedOptions)
                /\ ret' = Return(NoError)
                /\ votes' = [vote \in {v \in DOMAIN votes :
                                          \A poll \in matched : v.poll_id # poll.id}
                                 |-> votes[vote]]
                /\ UNCHANGED nextPollId
        /\ UNCHANGED <<calls, probe, ui>>

\* updatePoll asking for the session user before it validates its input
updatePoll_LoginFirst(user, pollId, question, formOptions) ==
    LET options == FormDataOptions(formOptions)
        pollIdValidation == pollIdValidations[pollId]
        questionValidation == questionValidations[question]
        optionsValidation == optionsValidations[options]
        matched == {poll \in polls : poll.id = pollId /\ poll.user_id = user.id}
        Return(error) == Response("updatePoll", "action", user, pollId, error, 0, <<>>)
    IN  /\ IF user = NoUser
           THEN ret' = Return("You must be logged in to update a poll.") /\ UNCHANGED storage
           ELSE IF ~pollIdValidation.isValid
           THEN ret' = Return(pollIdValidation.error) /\ UNCHANGED storage
           ELSE IF ~questionValidation.isValid
           THEN ret' = Return(questionValidation.error) /\ UNCHANGED storage
           ELSE IF ~optionsValidation.isValid
           THEN ret' = Return(optionsValidation.error) /\ UNCHANGED storage
           ELSE /\ UpdatePolls(matched, user, question, optionsValidation.sanitizedOptions)
                /\ ret' = Return(NoError)
                /\ UNCHANGED <<votes, nextPollId>>
        /\ UNCHANGED <<calls, probe, ui>>

updatePoll(user, pollId, question, formOptions) ==
    LET options == FormDataOptions(formOptions)
        pollIdValidation == pollIdValidations[pollId]
        questionValidation == questionValidations[question]
        optionsValidation == optionsValidations[options]
        matched == {poll \in polls : poll.id = pollId /\ poll.user_id = user.id}
        Return(error) == Response("updatePoll", "action", user, pollId, error, 0, <<>>)
    IN  /\ IF ~pollIdValidation.isValid
           THEN ret' = Return(pollIdValidation.error) /\ UNCHANGED storage
           ELSE IF ~questionValidation.isValid
           THEN ret' = Return(questionValidation.error) /\ UNCHANGED storage
           ELSE IF ~optionsValidation.isValid
           THEN ret' = Return(optionsValidation.error) /\ UNCHANGED storage
           ELSE IF user = NoUser
           THEN ret' = Return("You must be logged in to update a poll.") /\ UNCHANGED storage
           ELSE /\ UpdatePolls(matched, user, question, optionsValidation.sanitizedOptions)
                /\ ret' = Return(NoError)
                /\ UNCHANGED <<votes, nextPollId>>
        /\ UNCHANGED <<calls, probe, ui>>

\* deletePoll without its check for a session user
deletePoll_NoLoginCheck(user, id) ==
    LET matched == {poll \in polls : poll.id = id /\ poll.user_id = user.id}
        Return(error) == Response("deletePoll", "action", user, id, error, 0, <<>>)
    IN  /\ IF ~IsUuidText(id)
           THEN ret' = Return(UuidSyntaxError) /\ UNCHANGED storage
           ELSE /\ DeletePolls(matched, user)
                /\ ret' = Return(NoError)
                /\ UNCHANGED nextPollId
        /\ UNCHANGED <<calls, probe, ui>>

deletePoll(user, id) ==
    LET matched == {poll \in polls : poll.id = id /\ poll.user_id = user.id}
        Return(error) == Response("deletePoll", "action", user, id, error, 0, <<>>)
    IN  /\ IF user = NoUser
           THEN ret' = Return("You must be logged in to delete a poll.") /\ UNCHANGED storage
           ELSE IF ~IsUuidText(id)
           THEN ret' = Return(UuidSyntaxError) /\ UNCHANGED storage
           ELSE /\ DeletePolls(matched, user)
                /\ ret' = Return(NoError)
                /\ UNCHANGED nextPollId
        /\ UNCHANGED <<calls, probe, ui>>

\* .order("created_at", { ascending: false }): the rows, newest first
RECURSIVE OrderNewestFirst(_)
OrderNewestFirst(rows) ==
    IF rows = {} THEN <<>>
    ELSE LET newest == CHOOSE row \in rows :
                          \A other \in rows : other.created_at <= row.created_at
         IN  <<newest>> \o OrderNewestFirst(rows \ {newest})

NotAuthenticated == "Not authenticated"

\* getUserPolls without its filter on the owner
getUserPolls_AllOwners(user) ==
    LET Return(error, data) == Response("getUserPolls", "action", user, <<>>, error, 0, data)
    IN  /\ IF user = NoUser
           THEN ret' = Return(NotAuthenticated, <<>>)
           ELSE ret' = Return(NoError, OrderNewestFirst(polls))
        /\ UNCHANGED <<storage, calls, probe, ui>>

getUserPolls(user) ==
    LET Return(error, data) == Response("getUserPolls", "action", user, <<>>, error, 0, data)
    IN  /\ IF user = NoUser
           THEN ret' = Return(NotAuthenticated, <<>>)
           ELSE ret' = Return(NoError,
                              OrderNewestFirst({poll \in polls : poll.user_id = user.id}))
        /\ UNCHANGED <<storage, calls, probe, ui>>

(***************************************************************************)
(* The route handlers that duplicate the poll lifecycle actions            *)
(***************************************************************************)
\* POST /api/polls
PollsPOST(user, question, options) ==
    LET questionValidation == questionValidations[question]
        optionsValidation == optionsValidations[options]
        Return(error, status, data) ==
            Response("createPoll", "route", user, <<>>, error, status, data)
    IN  /\ nextPollId <= MaxPolls
        /\ IF ~questionValidation.isValid
           THEN ret' = Return(questionValidation.error, 400, <<>>) /\ UNCHANGED storage
           ELSE IF ~optionsValidation.isValid
           THEN ret' = Return(optionsValidation.error, 400, <<>>) /\ UNCHANGED storage
           ELSE IF user = NoUser
           THEN /\ ret' = Return("You must be logged in to create a poll.", 401, <<>>)
                /\ UNCHANGED storage
           ELSE /\ InsertPoll(user.id, question, optionsValidation.sanitizedOptions)
                /\ ret' = Return(NoError, 201,
                                 <<CHOOSE poll \in polls' : poll.id = Uuid(nextPollId)>>)
                /\ UNCHANGED votes
        /\ UNCHANGED <<calls, probe, ui>>

\* PUT /api/polls/[id]
PollPUT(user, pollId, question, options) ==
    LET pollIdValidation == pollIdValidations[pollId]
        questionValidation == questionValidations[question]
        optionsValidation == optionsValidations[options]
        matched == {poll \in polls : poll.id = pollId /\ poll.user_id = user.id}
        Return(error, status, data) ==
            Response("updatePoll", "route", user, pollId, error, status, data)
    IN  /\ IF ~pollIdValidation.isValid
           THEN ret' = Return(pollIdValidation.error, 400, <<>>) /\ UNCHANGED storage
           ELSE IF ~questionValidation.isValid
           THEN ret' = Return(questionValidation.error, 400, <<>>) /\ UNCHANGED storage
           ELSE IF ~optionsValidation.isValid
           THEN ret' = Return(optionsValidation.error, 400, <<>>) /\ UNCHANGED storage
           ELSE IF user = NoUser
           THEN /\ ret' = Return("You must be logged in to update a poll.", 401, <<>>)
                /\ UNCHANGED storage
           ELSE /\ UpdatePolls(matched, user, question, optionsValidation.sanitizedOptions)
                /\ LET updated == Single(UpdatedPolls(matched, user))
                   IN  IF updated.error # NoError
                       THEN ret' = Return(updated.error, 500, <<>>)
                       ELSE ret' = Return(NoError, 200,
                                          <<CHOOSE poll \in updated.data : TRUE>>)
                /\ UNCHANGED <<votes, nextPollId>>
        /\ UNCHANGED <<calls, probe, ui>>

\* DELETE /api/polls/[id]/delete
PollDELETE(user, id) ==
    LET matched == {poll \in polls : poll.id = id /\ poll.user_id = user.id}
        Return(error, status) ==
            Response("deletePoll", "route", user, id, error, status, <<>>)
    IN  /\ IF user = NoUser
           THEN /\ ret' = Return("You must be logged in to delete a poll.", 401)
                /\ UNCHANGED storage
           ELSE IF ~IsUuidText(id)
           THEN ret' = Return(UuidSyntaxError, 500) /\ UNCHANGED storage
           ELSE /\ DeletePolls(matched, user)
                /\ ret' = Return(NoError, 200)
                /\ UNCHANGED nextPollId
        /\ UNCHANGED <<calls, probe, ui>>

(***************************************************************************)
(* Administration: admin-actions.ts                                        *)
(***************************************************************************)
AccessDenied == "Access denied. Admin privileges required."

\* isAdmin that admits every user with an email
isAdmin_AnyEmail(user) ==
    IF user = NoUser \/ user.email = Null
    THEN [isAdmin |-> FALSE, error |-> NotAuthenticated]
    ELSE [isAdmin |-> TRUE, error |-> NoError]

isAdmin(user) ==
    IF user = NoUser \/ user.email = Null
    THEN [isAdmin |-> FALSE, error |-> NotAuthenticated]
    ELSE [isAdmin |-> user.email \in ADMIN_EMAILS, error |-> NoError]

\* getAllPolls that hands the polls to a caller it denies
getAllPolls_DeniedWithPolls(user) ==
    LET Return(error, data) == Response("getAllPolls", "action", user, <<>>, error, 0, data)
    IN  /\ IF ~isAdmin(user).isAdmin
           THEN ret' = Return(AccessDenied, OrderNewestFirst(polls))
           ELSE ret' = Return(NoError, OrderNewestFirst(polls))
        /\ UNCHANGED <<storage, calls, probe, ui>>

getAllPolls(user) ==
    LET adminCheck == isAdmin(user)
        Return(error, data) == Response("getAllPolls", "action", user, <<>>, error, 0, data)
    IN  /\ IF ~adminCheck.isAdmin
           THEN ret' = Return(AccessDenied, <<>>)
           ELSE ret' = Return(NoError, OrderNewestFirst(polls))
        /\ UNCHANGED <<storage, calls, probe, ui>>

deletePollAsAdmin(user, pollId) ==
    LET adminCheck == isAdmin(user)
        matched == {poll \in polls : poll.id = pollId}
        Return(error) == Response("deletePollAsAdmin", "action", user, pollId, error, 0, <<>>)
    IN  /\ IF ~adminCheck.isAdmin
           THEN ret' = Return(AccessDenied) /\ UNCHANGED storage
           ELSE IF ~IsUuidText(pollId)
           THEN ret' = Return(UuidSyntaxError) /\ UNCHANGED storage
           ELSE /\ DeletePolls(matched, user)
                /\ ret' = Return(NoError)
                /\ UNCHANGED nextPollId
        /\ UNCHANGED <<calls, probe, ui>>

(***************************************************************************)
(* Vote ledger: getPollResults and submitVote                              *)
(***************************************************************************)
\* userVote of a requester without a vote (JavaScript null)
NoVote == -1

\* the tally with the lower bound check written as option_index > 0
RECURSIVE Tally_SkipFirst(_, _)
Tally_SkipFirst(voteCounts, rows) ==
    IF rows = {} THEN voteCounts
    ELSE LET vote == CHOOSE v \in rows : TRUE
         IN  Tally_SkipFirst(IF vote.option_index > 0 /\ vote.option_index < Len(voteCounts)
                             THEN [voteCounts EXCEPT ![vote.option_index + 1] = @ + 1]
                             ELSE voteCounts,
                             rows \ {vote})

\* a tally that counts a vote beyond the last option on the last option
RECURSIVE Tally_ClampToLast(_, _)
Tally_ClampToLast(voteCounts, rows) ==
    IF rows = {} THEN voteCounts
    ELSE LET vote == CHOOSE v \in rows : TRUE
         IN  Tally_ClampToLast(IF vote.option_index >= 0
                               THEN IF vote.option_index < Len(voteCounts)
                                    THEN [voteCounts EXCEPT ![vote.option_index + 1] = @ + 1]
                                    ELSE [voteCounts EXCEPT ![Len(voteCounts)] = @ + 1]
                               ELSE voteCounts,
                               rows \ {vote})

\* for (const vote of votes) if (in range) voteCounts[vote.option_index]++
RECURSIVE Tally(_, _)
Tally(voteCounts, rows) ==
    IF rows = {} THEN voteCounts
    ELSE LET vote == CHOOSE v \in rows : TRUE
         IN  Tally(IF vote.option_index >= 0 /\ vote.option_index < Len(voteCounts)
                   THEN [voteCounts EXCEPT ![vote.option_index + 1] = @ + 1]
                   ELSE voteCounts,
                   rows \ {vote})

\* voteCounts.reduce((sum, count) => sum + count, 0)
RECURSIVE Sum(_, _)
Sum(counts, n) == IF n = 0 THEN 0 ELSE Sum(counts, n - 1) + counts[n]

\* (count / totalVotes) * 100 kept as the exact fraction num / den
Percentage(count, totalVotes) ==
    IF totalVotes > 0 THEN [num |-> count * 100, den |-> totalVotes]
    ELSE [num |-> 0, den |-> 1]

\* steps 6 of getPollResults: the results array
PollResults(poll, rows) ==
    LET voteCounts == Tally([i \in 1..Len(poll.options) |-> 0], rows)
        totalVotes == Sum(voteCounts, Len(voteCounts))
    IN  [i \in 1..Len(poll.options) |->
            [option |-> poll.options[i], count |-> voteCounts[i],
             percentage |-> Percentage(voteCounts[i], totalVotes)]]

\* the current user's vote looked up without comparing the voter
UserVotes_AnyVoter(user, rows) ==
    IF rows = {} THEN {NoVote} ELSE {v.option_index : v \in rows}

\* votes.find(v => v.user_id === user.id)?.option_index: the rows come in no
\* stated order, so any of the user's rows may be the first one found
UserVotes(user, rows) ==
    IF user = NoUser \/ {v \in rows : v.user_id = user.id} = {}
    THEN {NoVote}
    ELSE {v.option_index : v \in {w \in rows : w.user_id = user.id}}

getPollResults(user, pollId) ==
    LET pollIdValidation == pollIdValidations[pollId]
        poll == Single(PollsById(pollId))
        rows == VotesOfPoll(pollId)
        Return(error, data) ==
            Response("getPollResults", "action", user, pollId, error, 0, data)
    IN  /\ IF ~pollIdValidation.isValid
           THEN ret' = Return(pollIdValidation.error, <<>>)
           ELSE IF poll.error # NoError
           THEN ret' = Return("Poll not found.", <<>>)
           ELSE \E userVote \in UserVotes(user, rows) :
                   ret' = Return(NoError,
                                 <<[poll |-> CHOOSE row \in poll.data : TRUE,
                                    results |-> PollResults(CHOOSE row \in poll.data : TRUE, rows),
                                    userVote |-> userVote]>>)
        /\ UNCHANGED <<storage, calls, probe, ui>>

AlreadyVoted == "You have already voted on this poll."

\* calls in flight, each of which may still insert one vote
InFlight == {p \in Procs : calls[p].pc # "idle"}

\* The bound on the votes table.  A new call is admitted while a row is left
\* for it and for every call in flight, or when it cannot insert: no call is
\* in flight and its user has one vote on the poll already.
Admitted(user, pollId) ==
    \/ BagCardinality(votes) + Cardinality(InFlight) < MaxVotes
    \/ /\ InFlight = {}
       /\ user # NoUser
       /\ Cardinality(VotesOfUser(pollId, user.id)) = 1

\* submitVote up to its existing-vote lookup: validate the poll id, load the
\* poll's options, validate the option index, read the session user
submitVoteLoad(p, user, pollId, optionIndex) ==
    LET pollIdValidation == pollIdValidations[pollId]
        poll == Single(PollsById(pollId))
        loaded == CHOOSE row \in poll.data : TRUE
        optionIndexValidation == validateOptionIndex(optionIndex, Len(loaded.options))
        Return(error) == Response("submitVote", "action", user, pollId, error, 0, <<>>)
    IN  /\ calls[p].pc = "idle"
        /\ Admitted(user, pollId)
        /\ IF ~pollIdValidation.isValid
           THEN ret' = Return(pollIdValidation.error) /\ UNCHANGED calls
           ELSE IF poll.error # NoError
           THEN ret' = Return("Poll not found.") /\ UNCHANGED calls
           ELSE IF ~optionIndexValidation.isValid
           THEN ret' = Return(optionIndexValidation.error) /\ UNCHANGED calls
           ELSE /\ calls' = [calls EXCEPT ![p] =
                      [pc |-> IF user # NoUser THEN "lookup" ELSE "insert",
                       entry |-> "action", user |-> user, pollId |-> pollId,
                       optionIndex |-> optionIndex.whole]]
                /\ UNCHANGED ret
        /\ UNCHANGED <<storage, probe, ui>>

\* submitVote without the existing-vote gate: the lookup never stops the call
submitVoteLookup_NoGate(p) ==
    /\ calls[p].pc = "lookup"
    /\ calls[p].entry = "action"
    /\ calls' = [calls EXCEPT ![p].pc = "insert"]
    /\ UNCHANGED <<ret, storage, probe, ui>>

\* the existing-vote lookup of submitVote; only data is read from its result
submitVoteLookup(p) ==
    LET call == calls[p]
        existingVote == Single(VotesOfUser(call.pollId, call.user.id)).data
    IN  /\ call.pc = "lookup"
        /\ call.entry = "action"
        /\ IF existingVote # {}
           THEN /\ ret' = Response("submitVote", "action", call.user, call.pollId,
                                   AlreadyVoted, 0, <<>>)
                /\ calls' = [calls EXCEPT ![p] = Idle]
           ELSE /\ calls' = [calls EXCEPT ![p].pc = "insert"]
                /\ UNCHANGED ret
        /\ UNCHANGED <<storage, probe, ui>>

\* the insert of submitVote into a votes table without its foreign key
submitVoteInsert_NoForeignKey(p) ==
    LET call == calls[p]
    IN  /\ call.pc = "insert"
        /\ call.entry = "action"
        /\ calls' = [calls EXCEPT ![p] = Idle]
        /\ InsertVote(call.pollId, call.user.id, call.optionIndex)
        /\ ret' = Response("submitVote", "action", call.user, call.pollId, NoError, 0, <<>>)
        /\ UNCHANGED <<polls, nextPollId, probe, ui>>

\* the insert of submitVote; poll_id REFERENCES polls(id) rejects a vote for a
\* poll that is gone
submitVoteInsert(p) ==
    LET call == calls[p]
        Return(error) == Response("submitVote", "action", call.user, call.pollId,
                                  error, 0, <<>>)
    IN  /\ call.pc = "insert"
        /\ call.entry = "action"
        /\ calls' = [calls EXCEPT ![p] = Idle]
        /\ IF PollsById(call.pollId) = {}
           THEN ret' = Return(ForeignKeyError) /\ UNCHANGED votes
           ELSE /\ InsertVote(call.pollId, call.user.id, call.optionIndex)
                /\ ret' = Return(NoError)
        /\ UNCHANGED <<polls, nextPollId, probe, ui>>

\* POST /api/polls/[id]/vote, in the same three steps
VotePOSTLoad(p, user, pollId, optionIndex) ==
    LET pollIdValidation == pollIdValidations[pollId]
        poll == Single(PollsById(pollId))
        loaded == CHOOSE row \in poll.data : TRUE
        optionIndexValidation == validateOptionIndex(optionIndex, Len(loaded.options))
        Return(error, status) ==
            Response("submitVote", "route", user, pollId, error, status, <<>>)
    IN  /\ calls[p].pc = "idle"
        /\ Admitted(user, pollId)
        /\ IF ~pollIdValidation.isValid
           THEN ret' = Return(pollIdValidation.error, 400) /\ UNCHANGED calls
           ELSE IF poll.error # NoError
           THEN ret' = Return("Poll not found.", 404) /\ UNCHANGED calls
           ELSE IF ~optionIndexValidation.isValid
           THEN ret' = Return(optionIndexValidation.error, 400) /\ UNCHANGED calls
           ELSE /\ calls' = [calls EXCEPT ![p] =
                      [pc |-> IF user # NoUser THEN "lookup" ELSE "insert",
                       entry |-> "route", user |-> user, pollId |-> pollId,
                       optionIndex |-> optionIndex.whole]]
                /\ UNCHANGED ret
        /\ UNCHANGED <<storage, probe, ui>>

VotePOSTLookup(p) ==
    LET call == calls[p]
        existingVote == Single(VotesOfUser(call.pollId, call.user.id)).data
    IN  /\ call.pc = "lookup"
        /\ call.entry = "route"
        /\ IF existingVote # {}
           THEN /\ ret' = Response("submitVote", "route", call.user, call.pollId,
                                   AlreadyVoted, 409, <<>>)
                /\ calls' = [calls EXCEPT ![p] = Idle]
           ELSE /\ calls' = [calls EXCEPT ![p].pc = "insert"]
                /\ UNCHANGED ret
        /\ UNCHANGED <<storage, probe, ui>>

VotePOSTInsert(p) ==
    LET call == calls[p]
        Return(error, status) == Response("submitVote", "route", call.user, call.pollId,
                                          error, status, <<>>)
    IN  /\ call.pc = "insert"
        /\ call.entry = "route"
        /\ calls' = [calls EXCEPT ![p] = Idle]
        /\ IF PollsById(call.pollId) = {}
           THEN ret' = Return(ForeignKeyError, 500) /\ UNCHANGED votes
           ELSE /\ InsertVote(call.pollId, call.user.id, call.optionIndex)
                /\ ret' = Return(NoError, 200)
        /\ UNCHANGED <<polls, nextPollId, probe, ui>>

(***************************************************************************)
(* The system.  A request may arrive at any time, with a session from S    *)
(* and arguments from Q, O, P and I; a submitVote in flight takes its next *)
(* step at any later time; a response is handed to its caller before the   *)
(* next one is produced.                                                   *)
(***************************************************************************)
\* the caller takes the response
Deliver ==
    /\ ret # NoRet
    /\ ret' = NoRet
    /\ UNCHANGED <<storage, calls, probe, ui>>

\* a new invocation of submitVote runs in the first free slot
FirstIdle(p) == calls[p].pc = "idle" /\ \A q \in 1..(p - 1) : calls[q].pc # "idle"

\* requests that write the content of a poll
Edit(S, Q, O, P) ==
    \/ \E user \in S, question \in Q, options \in O :
          createPoll(user, question, options)
    \/ \E user \in S, question \in Q, options \in O :
          PollsPOST(user, question, options)
    \/ \E user \in S, pollId \in P, question \in Q, options \in O :
          updatePoll(user, pollId, question, options)
    \/ \E user \in S, pollId \in P, question \in Q, options \in O :
          PollPUT(user, pollId, question, options)

\* requests that delete a poll
Remove(S, P) ==
    \/ \E user \in S, pollId \in P : deletePoll(user, pollId)
    \/ \E user \in S, pollId \in P : PollDELETE(user, pollId)
    \/ \E user \in S \cup {NoEmail}, pollId \in P : deletePollAsAdmin(user, pollId)

\* requests that read
Read(S, P) ==
    \/ \E user \in S, pollId \in P : getPollResults(user, pollId)
    \/ \E user \in S : getUserPolls(user)
    \/ \E user \in S \cup {NoEmail} : getAllPolls(user)

\* requests that vote, up to their first await after the poll is loaded
Vote(S, P, I) ==
    \/ \E p \in Procs, user \in S, pollId \in P, optionIndex \in I :
          FirstIdle(p) /\ submitVoteLoad(p, user, pollId, optionIndex)
    \/ \E p \in Procs, user \in S, pollId \in P, optionIndex \in I :
          FirstIdle(p) /\ VotePOSTLoad(p, user, pollId, optionIndex)

\* a vote in flight takes its next step
Resume ==
    \/ \E p \in Procs : submitVoteLookup(p)
    \/ \E p \in Procs : submitVoteInsert(p)
    \/ \E p \in Procs : VotePOSTLookup(p)
    \/ \E p \in Procs : VotePOSTInsert(p)

\* concurrent requests, with few distinct arguments
Next ==
    \/ Deliver
    \/ ret = NoRet /\ Edit(FewSessions, FewQuestions, FewOptionLists, FewPollIds)
    \/ ret = NoRet /\ Remove(FewSessions, FewPollIds)
    \/ ret = NoRet /\ Read(FewSessions, FewPollIds)
    \/ ret = NoRet /\ Vote(FewSessions, FewPollIds, FewOptionIndexes)
    \/ ret = NoRet /\ Resume

Spec == Init /\ [][Next]_vars

\* requests served one at a time: none arrives while a submitVote is in flight
SerialNext ==
    \/ Deliver
    \/ ret = NoRet /\ InFlight = {} /\ Edit(Sessions, FewQuestions, FewOptionLists, PollIds)
    \/ ret = NoRet /\ InFlight = {} /\ Remove(Sessions, PollIds)
    \/ ret = NoRet /\ InFlight = {} /\ Read(Sessions, PollIds)
    \/ ret = NoRet /\ InFlight = {} /\ Vote(FewSessions, PollIds, OptionIndexes)
    \/ ret = NoRet /\ Resume

SerialSpec == Init /\ [][SerialNext]_vars

\* any sequence of createPoll and updatePoll calls, with every kind of content
ContentNext ==
    \/ Deliver
    \/ ret = NoRet /\ Edit(Sessions, Questions, OptionLists, PollIds)

ContentSpec == Init /\ [][ContentNext]_vars

(***************************************************************************)
(* The listings, read from a table that earlier createPoll and deletePoll  *)
(* calls of two users have left: any of the first MaxListed polls, each    *)
(* owned by either user.                                                   *)
(***************************************************************************)
ListInit ==
    /\ \E owner \in [1..MaxListed -> {Null, Alice.id, Admin.id}] :
          polls = {[id |-> Uuid(n), user_id |-> owner[n], question |-> QuestionClean,
                    options |-> OptionsTwo, created_at |-> n] :
                   n \in {m \in 1..MaxListed : owner[m] # Null}}
    /\ votes = EmptyBag
    /\ nextPollId = MaxListed + 1
    /\ calls = [p \in Procs |-> Idle]
    /\ ret = NoRet
    /\ probe = NoProbe
    /\ ui = NoComponent

ListNext ==
    \/ Deliver
    \/ ret = NoRet /\ Read(Sessions, PollIds)
    \/ ret = NoRet /\ Remove(Sessions, PollIds)

ListSpec == ListInit /\ [][ListNext]_vars

\* updates of one stored poll, by the server action and by the PUT route,
\* with every kind of request content
UpdateInit ==
    /\ \E owner \in {Alice.id, Admin.id} :
          polls = {[id |-> Uuid(1), user_id |-> owner, question |-> QuestionClean,
                    options |-> OptionsTwo, created_at |-> 1]}
    /\ votes = EmptyBag
    /\ nextPollId = 2
    /\ calls = [p \in Procs |-> Idle]
    /\ ret = NoRet
    /\ probe = NoProbe
    /\ ui = NoComponent

UpdateNext ==
    \/ Deliver
    \/ /\ ret = NoRet
       /\ \E user \in Sessions, pollId \in PollIds,
             question \in Questions, options \in OptionLists :
             updatePoll(user, pollId, question, options)
    \/ /\ ret = NoRet
       /\ \E user \in Sessions, pollId \in PollIds,
             question \in Questions, options \in OptionLists :
             PollPUT(user, pollId, question, options)

UpdateSpec == UpdateInit /\ [][UpdateNext]_vars

(***************************************************************************)
(* sanitizeString applied on its own, once and then to its own result      *)
(***************************************************************************)
Pieces ==
    {<<"<">>, <<" ">>, <<"a">>, <<"o">>, <<"o", "n", "x", "=">>, <<"n", "x", "=">>,
     <<"j", "a", "v", "a">>, <<"s", "c", "r", "i", "p", "t", ":">>,
     <<"J", "a", "v", "a", "S", "c", "r", "i", "p", "t", ":">>}

\* the strings made of at most n pieces
RECURSIVE Compose(_)
Compose(n) ==
    IF n = 0 THEN {<<>>}
    ELSE Compose(n - 1) \cup {s \o piece : s \in Compose(n - 1), piece \in Pieces}

SanitizeInputs == Compose(MaxPieces)

SanitizeInit ==
    /\ SystemInit
    /\ ui = NoComponent
    /\ \E s \in SanitizeInputs :
          probe = [fn |-> "sanitizeString", input |-> s, output |-> <<>>,
                   again |-> <<>>, stage |-> 0]

Sanitize ==
    /\ probe.fn = "sanitizeString"
    /\ probe.stage = 0
    /\ probe' = [probe EXCEPT !.output = sanitizeString(probe.input), !.stage = 1]
    /\ UNCHANGED <<storage, calls, ret, ui>>

SanitizeAgain ==
    /\ probe.fn = "sanitizeString"
    /\ probe.stage = 1
    /\ probe' = [probe EXCEPT !.again = sanitizeString(probe.output), !.stage = 2]
    /\ UNCHANGED <<storage, calls, ret, ui>>

SanitizeNext == Sanitize \/ SanitizeAgain

SanitizeSpec == SanitizeInit /\ [][SanitizeNext]_vars

(***************************************************************************)
(* validatePollOptions applied on its own                                  *)
(***************************************************************************)
\* entries of an options array: plain, padded, emptied by sanitizing, too
\* long, and not a string
OptionPieces ==
    {<<"a">>, <<"b">>, <<" ", "a">>, <<"<">>, Repeat("b", MaxOptionLength + 1), Undefined}

\* the lists of at most n entries
RECURSIVE ComposeOptions(_)
ComposeOptions(n) ==
    IF n = 0 THEN {<<>>}
    ELSE ComposeOptions(n - 1)
         \cup {Append(list, piece) : list \in ComposeOptions(n - 1), piece \in OptionPieces}

\* ten and eleven entries: distinct, with duplicates, with a long entry
OptionsTenDuplicate == [i \in 1..MaxOptions |-> <<"a">>]

OptionsTenTooLong == [i \in 1..MaxOptions |-> Repeat("b", MaxOptionLength + i)]

OptionsElevenDuplicate == [i \in 1..(MaxOptions + 1) |-> <<"a">>]

OptionsElevenEmpty == [i \in 1..(MaxOptions + 1) |-> <<"<">>]

OptionInputs ==
    ComposeOptions(MaxComposed)
    \cup OptionLists
    \cup {NotAnArray, OptionsTenDuplicate, OptionsTenTooLong,
          OptionsElevenDuplicate, OptionsElevenEmpty}

OptionsInit ==
    /\ SystemInit
    /\ ui = NoComponent
    /\ \E options \in OptionInputs :
          probe = [fn |-> "validatePollOptions", input |-> options, output |-> <<>>,
                   again |-> <<>>, stage |-> 0]

ValidateOptions ==
    /\ probe.fn = "validatePollOptions"
    /\ probe.stage = 0
    /\ probe' = [probe EXCEPT !.output = validatePollOptions(probe.input), !.stage = 1]
    /\ UNCHANGED <<storage, calls, ret, ui>>

OptionsNext == ValidateOptions

OptionsSpec == OptionsInit /\ [][OptionsNext]_vars

(***************************************************************************)
(* PollCreateForm.  options is the state of useState(["", ""]) with every  *)
(* queued updater applied; rendered is the options array of the last       *)
(* render, the one the event handlers read; pending counts the events      *)
(* handled since that render.  The form exists with a guarded addOption    *)
(* (create/PollCreateForm.tsx) and with an unguarded one.                   *)
(***************************************************************************)
MinFormOptions == 2

MaxFormOptions == 10

FormInit ==
    /\ SystemInit
    /\ probe = NoProbe
    /\ \E guarded \in BOOLEAN :
          ui = [component |-> "PollCreateForm", guardedAdd |-> guarded,
                options |-> <<"", "">>, rendered |-> <<"", "">>, pending |-> 0]

\* setOptions((opts) => [...opts, ""]), behind options.length < 10 where the
\* form has that check
addOption ==
    /\ ui.component = "PollCreateForm"
    /\ ui.pending < MaxPending
    /\ Len(ui.options) < MaxFields
    /\ ui' = [ui EXCEPT !.options = IF ~ui.guardedAdd \/ Len(ui.rendered) < MaxFormOptions
                                    THEN Append(@, "")
                                    ELSE @,
                        !.pending = @ + 1]
    /\ UNCHANGED <<storage, calls, ret, probe>>

\* opts.filter((_, i) => i !== idx), idx counted from zero
FilterOutIndex(opts, idx) ==
    IF idx + 1 \in 1..Len(opts)
    THEN [i \in 1..(Len(opts) - 1) |-> IF i < idx + 1 THEN opts[i] ELSE opts[i + 1]]
    ELSE opts

\* setOptions((opts) => opts.filter((_, i) => i !== idx)) behind options.length > 2
removeOption(idx) ==
    /\ ui.component = "PollCreateForm"
    /\ ui.pending < MaxPending
    /\ ui' = [ui EXCEPT !.options = IF Len(ui.rendered) > MinFormOptions
                                    THEN FilterOutIndex(@, idx)
                                    ELSE @,
                        !.pending = @ + 1]
    /\ UNCHANGED <<storage, calls, ret, probe>>

\* setOptions((opts) => opts.map((opt, i) => (i === idx ? value : opt)))
handleOptionChange(idx, value) ==
    /\ ui.component = "PollCreateForm"
    /\ ui.pending < MaxPending
    /\ ui' = [ui EXCEPT !.options = [i \in 1..Len(@) |-> IF i = idx + 1 THEN value ELSE @[i]],
                        !.pending = @ + 1]
    /\ UNCHANGED <<storage, calls, ret, probe>>

\* the component renders again with the state its updaters have produced
RenderForm ==
    /\ ui.component = "PollCreateForm"
    /\ ui.pending > 0
    /\ ui' = [ui EXCEPT !.rendered = ui.options, !.pending = 0]
    /\ UNCHANGED <<storage, calls, ret, probe>>

FormNext ==
    \/ addOption
    \/ \E idx \in {0, Len(ui.rendered) - 1} : removeOption(idx)
    \/ \E idx \in {0, 1} : handleOptionChange(idx, "a")
    \/ RenderForm

FormSpec == FormInit /\ [][FormNext]_vars

(***************************************************************************)
(* AuthForm.  isSubmitting is the state of useState(false) and rendered    *)
(* its value in the last render, which handleSubmit reads; inFlight counts *)
(* the onSubmit calls that have not settled, submits the submit events and *)
(* outcomes records how each onSubmit call ended.  A submit is a discrete  *)
(* event: React renders its state updates before the next event arrives,   *)
(* while the update made after the await is rendered later.                *)
(***************************************************************************)
AuthFormInit ==
    /\ SystemInit
    /\ probe = NoProbe
    /\ ui = [component |-> "AuthForm", isSubmitting |-> FALSE, rendered |-> FALSE,
             inFlight |-> 0, submits |-> 0, outcomes |-> <<>>]

\* handleSubmit that starts onSubmit whatever isSubmitting is
handleSubmit_NoGuard ==
    /\ ui.component = "AuthForm"
    /\ ui.submits < MaxSubmits
    /\ ui' = [ui EXCEPT !.isSubmitting = TRUE, !.rendered = TRUE,
                        !.inFlight = @ + 1, !.submits = @ + 1]
    /\ UNCHANGED <<storage, calls, ret, probe>>

\* handleSubmit up to its await: if (isSubmitting) return;
\* setIsSubmitting(true); onSubmit(formData)
handleSubmit ==
    /\ ui.component = "AuthForm"
    /\ ui.submits < MaxSubmits
    /\ IF ui.rendered
       THEN ui' = [ui EXCEPT !.submits = @ + 1]
       ELSE ui' = [ui EXCEPT !.isSubmitting = TRUE, !.rendered = TRUE,
                             !.inFlight = @ + 1, !.submits = @ + 1]
    /\ UNCHANGED <<storage, calls, ret, probe>>

\* onSubmit resolves or throws; catch rethrows; finally setIsSubmitting(false)
onSubmitSettles(outcome) ==
    /\ ui.component = "AuthForm"
    /\ ui.inFlight > 0
    /\ ui' = [ui EXCEPT !.inFlight = @ - 1, !.isSubmitting = FALSE,
                        !.outcomes = Append(@, outcome)]
    /\ UNCHANGED <<storage, calls, ret, probe>>

\* the render that follows the state update made after the await
RenderAuthForm ==
    /\ ui.component = "AuthForm"
    /\ ui.rendered # ui.isSubmitting
    /\ ui' = [ui EXCEPT !.rendered = ui.isSubmitting]
    /\ UNCHANGED <<storage, calls, ret, probe>>

AuthFormNext ==
    \/ handleSubmit
    \/ onSubmitSettles("resolved")
    \/ onSubmitSettles("thrown")
    \/ RenderAuthForm

\* an onSubmit call settles, and a state update is rendered
AuthFormSpec ==
    /\ AuthFormInit
    /\ [][AuthFormNext]_vars
    /\ WF_vars(onSubmitSettles("resolved") \/ onSubmitSettles("thrown"))
    /\ WF_vars(RenderAuthForm)

(***************************************************************************)
(* AuthProvider.  session, user and loading are its three pieces of state; *)
(* mounted is the flag of its effect, cleared by the effect's cleanup;     *)
(* getSession tells whether the initial getSession call has returned and   *)
(* events counts the auth state change events delivered to the listener    *)
(* and signOuts the signOut calls whose event has not been delivered yet.  *)
(* A session is written as the record of its user, null as NoSession.      *)
(***************************************************************************)
NoSession == [user |-> NoUser]

AuthSessions == {NoSession} \cup {[user |-> u] : u \in {Alice, Admin}}

AuthProviderInit ==
    /\ SystemInit
    /\ probe = NoProbe
    /\ ui = [component |-> "AuthProvider", mounted |-> TRUE,
             session |-> NoSession, user |-> NoUser, loading |-> TRUE,
             getSession |-> "pending", events |-> 0, signOuts |-> 0]

\* if (mounted) { setSession(session); setUser(session?.user ?? null);
\* setLoading(false) }
SessionDelivered(state, session) ==
    IF state.mounted
    THEN [state EXCEPT !.session = session, !.user = session.user, !.loading = FALSE]
    ELSE state

\* getInitialSession after its await
getInitialSession(session) ==
    /\ ui.component = "AuthProvider"
    /\ ui.getSession = "pending"
    /\ ui' = [SessionDelivered(ui, session) EXCEPT !.getSession = "returned"]
    /\ UNCHANGED <<storage, calls, ret, probe>>

\* a listener that does not look at the mounted flag
onAuthStateChange_NoMountedCheck(session) ==
    /\ ui.component = "AuthProvider"
    /\ ui.events < MaxEvents
    /\ ui' = [ui EXCEPT !.session = session, !.user = session.user,
                        !.loading = FALSE, !.events = @ + 1,
                        !.signOuts = IF session = NoSession /\ @ > 0 THEN @ - 1 ELSE @]
    /\ UNCHANGED <<storage, calls, ret, probe>>

\* the callback given to supabase.auth.onAuthStateChange
onAuthStateChange(session) ==
    /\ ui.component = "AuthProvider"
    /\ ui.events < MaxEvents
    /\ ui' = [SessionDelivered(ui, session) EXCEPT
                 !.events = @ + 1,
                 !.signOuts = IF session = NoSession /\ @ > 0 THEN @ - 1 ELSE @]
    /\ UNCHANGED <<storage, calls, ret, probe>>

\* signOut: supabase.auth.signOut(), answered later by an event without session
signOut ==
    /\ ui.component = "AuthProvider"
    /\ ui.mounted
    /\ ui.events + ui.signOuts < MaxEvents
    /\ ui' = [ui EXCEPT !.signOuts = @ + 1]
    /\ UNCHANGED <<storage, calls, ret, probe>>

\* the cleanup of the effect: mounted = false
Unmount ==
    /\ ui.component = "AuthProvider"
    /\ ui.mounted
    /\ ui' = [ui EXCEPT !.mounted = FALSE]
    /\ UNCHANGED <<storage, calls, ret, probe>>

AuthProviderNext ==
    \/ \E session \in AuthSessions : getInitialSession(session)
    \/ \E session \in AuthSessions : onAuthStateChange(session)
    \/ signOut
    \/ Unmount

AuthProviderSpec == AuthProviderInit /\ [][AuthProviderNext]_vars

(***************************************************************************)
(* Properties                                                              *)
(***************************************************************************)
\* a response is produced in this step
Responds(op) == ret = NoRet /\ ret'.op = op

\* the session user of the response owns a poll with the response's poll id
OwnsPoll(response, table) ==
    \E poll \in table : poll.id = response.pollId /\ poll.user_id = response.user.id

\* C1: storage holds at most one vote for each (poll_id, voter_id) pair with a
\* non-null voter_id, under any interleaving of submitVote calls.
C1_OneVotePerVoter ==
    \A vote \in DOMAIN votes :
        vote.user_id # Null => Cardinality(VotesOfUser(vote.poll_id, vote.user_id)) <= 1

\* C2: with requests served one at a time, a submitVote call by an
\* authenticated actor without a vote on the poll succeeds and records one
\* vote, a later call by the same actor on the same poll returns the
\* already-voted error and records nothing, and an anonymous call always
\* succeeds and records one more vote with a null voter.
C2_SequentialVotes ==
    [][\A p \in Procs :
          (calls[p].pc # "idle" /\ calls'[p].pc = "idle" /\ PollsById(calls[p].pollId) # {})
          => LET call == calls[p]
                 cast == SetToBag({[poll_id |-> call.pollId, user_id |-> call.user.id,
                                    option_index |-> call.optionIndex]})
                 earlier == Cardinality(VotesOfUser(call.pollId, call.user.id))
             IN  /\ ret'.op = "submitVote"
                 /\ ret'.user = call.user
                 /\ (call.user = NoUser \/ earlier = 0)
                       => ret'.error = NoError /\ votes' = votes (+) cast
                 /\ (call.user # NoUser /\ earlier = 1)
                       => ret'.error = AlreadyVoted /\ votes' = votes
                 /\ call.user # NoUser => earlier <= 1]_vars

C2_Witness ==
    /\ ret.op = "submitVote"
    /\ ret.error = AlreadyVoted
    /\ Cardinality(VotesOfUser(ret.pollId, ret.user.id)) = 1
    /\ \E vote \in DOMAIN votes :
          vote.poll_id = ret.pollId /\ vote.user_id = Null /\ votes[vote] = 2

\* C3: an update of a poll by an authenticated actor who does not own it, or
\* of a poll that does not exist, returns success and leaves every stored poll
\* unchanged, through the updatePoll action and through the PUT route.
C3_ForeignUpdateSucceeds ==
    [][(/\ Responds("updatePoll")
        /\ ret'.user # NoUser
        /\ MatchesUuidRegex(ret'.pollId)
        /\ ~OwnsPoll(ret', polls))
       => (ret'.error = NoError /\ polls' = polls)]_vars

C5_AdminDeletesAnyPoll ==
    [][Responds("deletePollAsAdmin")
       => IF ret'.user = NoUser \/ ret'.user.email \notin ADMIN_EMAILS
          THEN ret'.error = AccessDenied /\ polls' = polls /\ votes' = votes
          ELSE {poll \in polls' : poll.id = ret'.pollId} = {}]_vars

\* C6: every stored poll has between 2 and 10 options, each non-empty, at
\* most 200 characters long and free of '<' and '>', and no two equal.
C6_StoredOptionsValid ==
    \A poll \in polls :
        /\ Len(poll.options) >= MinOptions
        /\ Len(poll.options) <= MaxOptions
        /\ \A i \in 1..Len(poll.options) :
              /\ Len(poll.options[i]) >= 1
              /\ Len(poll.options[i]) <= MaxOptionLength
              /\ \A k \in 1..Len(poll.options[i]) : poll.options[i][k] \notin {"<", ">"}
              /\ \A j \in 1..Len(poll.options) : poll.options[i] = poll.options[j] => i = j

C6_Witness ==
    /\ ret.op = "updatePoll"
    /\ ret.error = NoError
    /\ \E poll \in polls :
          /\ poll.id = ret.pollId
          /\ poll.user_id = ret.user.id
          /\ Len(poll.options) = MaxOptions

\* C7: every stored poll's question is sanitized text of 3 to 500 characters:
\* it equals sanitizeString of itself and its length is within [3, 500].
C7_StoredQuestionSanitized ==
    \A poll \in polls :
        /\ poll.question = sanitizeString(poll.question)
        /\ Len(poll.question) >= MinQuestionLength
        /\ Len(poll.question) <= MaxQuestionLength

\* C8: sanitizeString is idempotent: sanitizing its result changes nothing.
C8_SanitizeIdempotent ==
    probe.stage = 2 => probe.again = probe.output

\* C9: for an existing poll getPollResults returns no error and one result per
\* option, in option order, whose count is the number of stored votes of the
\* poll with that option index and whose percentage times the total of the
\* counts is 100 times the count; without votes every count and percentage is 0.
C9_ResultsCountVotes ==
    ret.op = "getPollResults"
    => /\ PollsById(ret.pollId) # {} => ret.error = NoError
       /\ ret.error = NoError
             => LET poll == ret.data[1].poll
                    results == ret.data[1].results
                    Count(i) == Cardinality({vote \in VoteRows :
                                    vote.poll_id = ret.pollId /\ vote.option_index = i - 1})
                    total == Cardinality({vote \in VoteRows :
                                    /\ vote.poll_id = ret.pollId
                                    /\ vote.option_index \in 0..(Len(poll.options) - 1)})
                IN  /\ poll \in polls
                    /\ Len(results) = Len(poll.options)
                    /\ \A i \in 1..Len(results) :
                          /\ results[i].option = poll.options[i]
                          /\ results[i].count = Count(i)
                          /\ results[i].percentage.den > 0
                          /\ results[i].percentage.num * total
                                = 100 * Count(i) * results[i].percentage.den
                          /\ total = 0 => results[i].percentage.num = 0

C9_Witness ==
    /\ ret.op = "getPollResults"
    /\ ret.error = NoError
    /\ \E i, j \in 1..Len(ret.data[1].results) :
          ret.data[1].results[i].count = 2 /\ ret.data[1].results[j].count = 1

\* C10: every vote that submitVote inserts has an option index within the
\* options of its poll as stored at the moment of the insert.
C10_InsertedIndexInRange ==
    [][\A vote \in DOMAIN votes' :
          votes'[vote] > (IF vote \in DOMAIN votes THEN votes[vote] ELSE 0)
          => \E poll \in polls :
                /\ poll.id = vote.poll_id
                /\ vote.option_index >= 0
                /\ vote.option_index < Len(poll.options)]_vars

\* C11: a failing call reports its reason in the order validation,
\* authorization, not-found, conflict, storage: a call whose poll id fails
\* validatePollId reports that validation error, and a submitVote call whose
\* option index is negative or not an integer reports a validation error,
\* whoever the caller is and whether or not the poll exists.
C11_ValidationReportedFirst ==
    [][/\ \A op \in {"updatePoll", "deletePoll", "deletePollAsAdmin",
                     "submitVote", "getPollResults"} :
             (Responds(op) /\ ~validatePollId(ret'.pollId).isValid)
             => ret'.error = validatePollId(ret'.pollId).error
       /\ \A p \in Procs, user \in Sessions, pollId \in PollIds, optionIndex \in OptionIndexes :
             (/\ Responds("submitVote")
              /\ submitVoteLoad(p, user, pollId, optionIndex)
              /\ ~validateOptionIndex(optionIndex, MaxOptions).isValid)
             => ret'.error \in {validatePollId(pollId).error,
                                validateOptionIndex(optionIndex, MaxOptions).error}]_vars

\* C12: no delete on polls is issued with a poll id that fails validatePollId:
\* a deletePoll, DELETE route or deletePollAsAdmin call with such an id never
\* gets its answer from the polls table.
C12_NoDeleteWithInvalidId ==
    [][\A op \in {"deletePoll", "deletePollAsAdmin"} :
          (Responds(op) /\ ~validatePollId(ret'.pollId).isValid)
          => ret'.error \notin {NoError, UuidSyntaxError}]_vars

\* the operations that answer with a payload, and the inputs of an update
Operations ==
    {"createPoll", "updatePoll", "deletePoll", "deletePollAsAdmin", "submitVote",
     "getPollResults", "getUserPolls", "getAllPolls"}

\* updatePoll or the PUT route answers this step's request with success
UpdateSucceeds(user, pollId, question, options) ==
    /\ \/ updatePoll(user, pollId, question, options)
       \/ PollPUT(user, pollId, question, options)
    /\ ret'.error = NoError

\* an error comes without payload; a read without error carries its payload,
\* a createPoll or submitVote without error has inserted its row
PayloadOrError ==
    \A op \in Operations :
        Responds(op)
        => /\ ret'.error # NoError => ret'.data = <<>>
           /\ (ret'.error = NoError /\ op = "getPollResults") => Len(ret'.data) = 1
           /\ (ret'.error = NoError /\ op = "getUserPolls")
                 => Len(ret'.data) = Cardinality({poll \in polls : poll.user_id = ret'.user.id})
           /\ (ret'.error = NoError /\ op = "getAllPolls") => Len(ret'.data) = Cardinality(polls)
           /\ (ret'.error = NoError /\ op = "createPoll")
                 => Cardinality(polls') = Cardinality(polls) + 1
           /\ (ret'.error = NoError /\ op = "submitVote")
                 => BagCardinality(votes') = BagCardinality(votes) + 1

\* C13 as stated: each operation returns either a payload or an error, never
\* both, and whenever the error is null the requested payload or effect is
\* present: after a successful update the poll has the requested content, and
\* after a successful delete no poll has the given id.
C13_SuccessHasEffect ==
    [][/\ PayloadOrError
       /\ \A user \in Sessions, pollId \in PollIds,
             question \in FewQuestions, options \in FewOptionLists :
             (Responds("updatePoll") /\ UpdateSucceeds(user, pollId, question, options))
             => \E poll \in polls' :
                   /\ poll.id = pollId
                   /\ poll.question = question
                   /\ poll.options = optionsValidations[options].sanitizedOptions
       /\ \A op \in {"deletePoll", "deletePollAsAdmin"} :
             (Responds(op) /\ ret'.error = NoError)
             => {poll \in polls' : poll.id = ret'.pollId} = {}]_vars

\* C13: each operation returns either a payload or an error, never both; a
\* read without error carries its payload, a createPoll or submitVote without
\* error has inserted its row, and an updatePoll or deletePoll without error
\* has applied its effect to the poll with the given id when the session user
\* owns it, and to no other poll.
C13_PayloadOrError ==
    [][/\ PayloadOrError
       /\ \A user \in Sessions, pollId \in PollIds,
             question \in FewQuestions, options \in FewOptionLists :
             (Responds("updatePoll") /\ UpdateSucceeds(user, pollId, question, options))
             => polls' = {IF poll.id = pollId /\ poll.user_id = user.id
                          THEN [poll EXCEPT !.question = question,
                                            !.options = optionsValidations[options].sanitizedOptions]
                          ELSE poll : poll \in polls}
       /\ (Responds("deletePoll") /\ ret'.error = NoError)
             => polls' = {poll \in polls : ~(poll.id = ret'.pollId
                                             /\ poll.user_id = ret'.user.id)}]_vars

C13_Witness ==
    /\ ret.op = "updatePoll"
    /\ ret.entry = "action"
    /\ ret.error = NoError
    /\ ret.user # NoUser
    /\ \E poll \in polls : poll.id = ret.pollId /\ poll.user_id # ret.user.id

\* C14: a storage error is never swallowed in submitVote: when the
\* existing-vote lookup of a call fails (its single-row request finds more
\* than one row), the call ends with that error and never goes on to insert.
C14_LookupErrorStopsVote ==
    [][\A p \in Procs :
          (/\ calls[p].pc = "lookup"
           /\ calls'[p].pc # "lookup"
           /\ Cardinality(VotesOfUser(calls[p].pollId, calls[p].user.id)) > 1)
          => /\ calls'[p].pc = "idle"
             /\ ret'.error = Single(VotesOfUser(calls[p].pollId, calls[p].user.id)).error
             /\ votes' = votes]_vars

MustLogInToCreate == "You must be logged in to create a poll."

\* C15: createPoll (action and POST route) without a session user inserts no
\* poll and returns an error, the must-be-logged-in error when question and
\* options are valid; every poll it inserts is owned by the session user, so
\* every stored poll has a non-null owner.
C15_PollsHaveOwner ==
    [][/\ \A poll \in polls' : poll.user_id # Null
       /\ Responds("createPoll")
             => /\ \A poll \in polls' \ polls :
                      ret'.user # NoUser /\ poll.user_id = ret'.user.id
                /\ ret'.user = NoUser => (ret'.error # NoError /\ polls' = polls)
                /\ \A question \in Questions, options \in OptionLists :
                      (/\ \/ createPoll(NoUser, question, options)
                          \/ PollsPOST(NoUser, question, options)
                       /\ questionValidations[question].isValid
                       /\ optionsValidations[options].isValid
                       /\ optionsValidations[FormDataOptions(options)].isValid)
                      => ret'.error = MustLogInToCreate]_vars

C15_Witness ==
    /\ ret.op = "createPoll"
    /\ ret.user = NoUser
    /\ ret.error = MustLogInToCreate
    /\ polls = {}

\* C16: no operation modifies a stored vote, a vote leaves storage only when
\* its poll is deleted in the same step, and updatePoll leaves every vote
\* unchanged even when it shortens the options.
C16_VotesOnlyLeaveWithPoll ==
    [][/\ \A vote \in DOMAIN votes :
             (IF vote \in DOMAIN votes' THEN votes'[vote] ELSE 0) < votes[vote]
             => /\ \E poll \in polls : poll.id = vote.poll_id
                /\ \A poll \in polls' : poll.id # vote.poll_id
       /\ Responds("updatePoll") => votes' = votes]_vars

C16_Witness ==
    /\ ret.op = "updatePoll"
    /\ ret.error = NoError
    /\ \E poll \in polls :
          /\ poll.id = ret.pollId
          /\ poll.user_id = ret.user.id
          /\ Len(poll.options) = 2
          /\ \E vote \in DOMAIN votes : vote.poll_id = poll.id /\ vote.option_index = 2

\* C17: every stored vote's poll_id is the id of a stored poll, also when the
\* poll is deleted between the poll load and the vote insert of a submitVote
\* call, and after a poll with votes is deleted.
C17_VotesReferToPolls ==
    \A vote \in DOMAIN votes : \E poll \in polls : poll.id = vote.poll_id

C17_Witness ==
    /\ ret.op = "submitVote"
    /\ ret.error = ForeignKeyError
    /\ PollsById(ret.pollId) = {}

\* list holds exactly the rows, ordered by created_at newest first
IsNewestFirst(list, rows) ==
    /\ Len(list) = Cardinality(rows)
    /\ {list[i] : i \in 1..Len(list)} = rows
    /\ \A i, j \in 1..Len(list) : i < j => list[i].created_at > list[j].created_at

\* C18: getUserPolls without a session returns an empty list with the
\* 'Not authenticated' notice; with a session it returns exactly the stored
\* polls owned by the session user, newest first.
C18_UserPollsAreOwn ==
    ret.op = "getUserPolls"
    => IF ret.user = NoUser
       THEN ret.data = <<>> /\ ret.error = NotAuthenticated
       ELSE /\ ret.error = NoError
            /\ IsNewestFirst(ret.data, {poll \in polls : poll.user_id = ret.user.id})

C18_Witness ==
    /\ ret.op = "getUserPolls"
    /\ Len(ret.data) = 2
    /\ \E poll \in polls : poll.user_id # ret.user.id

\* C19: getAllPolls returns every stored poll, newest first, if and only if
\* the session user's email is in the admin allow-list; every other caller
\* gets an empty list and the access-denied error.
C19_AllPollsForAdminsOnly ==
    ret.op = "getAllPolls"
    => IF ret.user # NoUser /\ ret.user.email \in ADMIN_EMAILS
       THEN ret.error = NoError /\ IsNewestFirst(ret.data, polls)
       ELSE ret.data = <<>> /\ ret.error = AccessDenied

C19_Witness ==
    /\ ret.op = "getAllPolls"
    /\ ret.error = NoError
    /\ Len(ret.data) = MaxListed
    /\ \E poll \in polls : poll.user_id # ret.user.id

\* C20: getPollResults returns as userVote the option index of the stored
\* vote of the requesting authenticated actor on the poll when there is one,
\* and null otherwise; for a requester without a session it is null even when
\* anonymous votes exist.
C20_UserVoteIsOwnVote ==
    (ret.op = "getPollResults" /\ ret.error = NoError)
    => LET own == VotesOfUser(ret.pollId, ret.user.id)
       IN  IF ret.user # NoUser /\ own # {}
           THEN \E vote \in own : ret.data[1].userVote = vote.option_index
           ELSE ret.data[1].userVote = NoVote

C20_Witness ==
    /\ ret.op = "getPollResults"
    /\ ret.error = NoError
    /\ ret.user # NoUser
    /\ ret.data[1].userVote = 2
    /\ \E vote \in VotesOfPoll(ret.pollId) : vote.user_id = Null /\ vote.option_index = 0

\* C21: validatePollOptions reports the first failing check in the order: not
\* a list, fewer than 2 raw entries, more than 10 raw entries, fewer than 2
\* non-empty entries after sanitizing, duplicate sanitized entries, an entry
\* longer than 200 characters; a list that passes them all succeeds with the
\* sanitized non-empty entries in input order.
C21_OptionChecksInOrder ==
    (probe.fn = "validatePollOptions" /\ probe.stage = 1)
    => LET options == probe.input
           result == probe.output
           clean == IF options = NotAnArray THEN <<>>
                    ELSE [i \in 1..Len(options) |-> sanitizeString(options[i])]
           kept == {i \in 1..Len(clean) : clean[i] # <<>>}
           counted == options # NotAnArray /\ Len(options) >= 2 /\ Len(options) <= 10
           enough == counted /\ Cardinality(kept) >= 2
           distinct == enough /\ \A i, j \in kept : clean[i] = clean[j] => i = j
           short == distinct /\ \A i \in kept : Len(clean[i]) <= 200
       IN  /\ options = NotAnArray => result.error = "Options must be an array."
           /\ (options # NotAnArray /\ Len(options) < 2)
                 => result.error = "At least 2 options are required."
           /\ (options # NotAnArray /\ Len(options) > 10)
                 => result.error = "Maximum 10 options allowed."
           /\ (counted /\ ~enough) => result.error = "At least 2 valid options are required."
           /\ (enough /\ ~distinct) => result.error = "Duplicate options are not allowed."
           /\ (distinct /\ ~short)
                 => result.error = "Each option must be less than 200 characters."
           /\ result.isValid <=> short
           /\ short => /\ Len(result.sanitizedOptions) = Cardinality(kept)
                       /\ \A i \in kept :
                             result.sanitizedOptions[Cardinality({k \in kept : k <= i})]
                                = clean[i]

C21_Witness ==
    /\ probe.fn = "validatePollOptions"
    /\ probe.stage = 1
    /\ probe.output.error = "Duplicate options are not allowed."
    /\ \E i \in 1..Len(probe.input) : Len(probe.input[i]) > MaxOptionLength

\* C22: in the poll creation form the number of option fields is always
\* between 2 and 10, after any sequence of addOption, removeOption and
\* handleOptionChange events.
C22_OptionFieldsBounded ==
    ui.component = "PollCreateForm"
    => /\ Len(ui.options) >= 2 /\ Len(ui.options) <= 10
       /\ Len(ui.rendered) >= 2 /\ Len(ui.rendered) <= 10

\* C23: when stored votes of a poll carry an option index at or beyond the
\* poll's current number of options, getPollResults still returns no error
\* and the counts it returns add up to the number of stored votes of the poll
\* whose index is in range, which is less than the number of stored votes.
StaleVotes(pollId, options) ==
    {vote \in VoteRows : vote.poll_id = pollId /\ vote.option_index >= Len(options)}

C23_StaleVotesAreSkipped ==
    \A poll \in polls :
        (ret.op = "getPollResults" /\ ret.pollId = poll.id
            /\ StaleVotes(poll.id, poll.options) # {})
        => /\ ret.error = NoError
           /\ LET results == ret.data[1].results
                  counts == [i \in 1..Len(results) |-> results[i].count]
                  stored == {vote \in VoteRows : vote.poll_id = poll.id}
              IN  /\ Sum(counts, Len(counts))
                        = Cardinality(stored \ StaleVotes(poll.id, poll.options))
                  /\ Sum(counts, Len(counts)) < Cardinality(stored)

C23_Witness ==
    \E poll \in polls :
        /\ ret.op = "getPollResults" /\ ret.pollId = poll.id
        /\ ret.error = NoError
        /\ StaleVotes(poll.id, poll.options) # {}
        /\ \E i \in 1..Len(ret.data[1].results) : ret.data[1].results[i].count >= 1

\* C24: an update of a poll, by the server action or by the PUT route,
\* checks the poll id, then the question, then the options, and only then
\* that there is a session user; it reports the first check that fails and
\* changes nothing in storage unless all four checks pass.
FirstUpdateFailure(user, pollId, question, options) ==
    IF ~pollIdValidations[pollId].isValid THEN pollIdValidations[pollId].error
    ELSE IF ~questionValidations[question].isValid THEN questionValidations[question].error
    ELSE IF ~optionsValidations[options].isValid THEN optionsValidations[options].error
    ELSE IF user = NoUser THEN "You must be logged in to update a poll."
    ELSE NoError

C24_UpdateChecksInOrder ==
    [][Responds("updatePoll")
       => \A question \in Questions, options \in OptionLists :
             LET user == ret'.user
                 pollId == ret'.pollId
                 ofAction == FirstUpdateFailure(user, pollId, question,
                                                FormDataOptions(options))
                 ofRoute == FirstUpdateFailure(user, pollId, question, options)
             IN  /\ (ofAction # NoError /\ updatePoll(user, pollId, question, options))
                    => ret'.error = ofAction /\ UNCHANGED storage
                 /\ (ofRoute # NoError /\ PollPUT(user, pollId, question, options))
                    => ret'.error = ofRoute /\ UNCHANGED storage
      ]_vars

C24_Witness ==
    /\ ret.op = "updatePoll"
    /\ ret.entry = "action"
    /\ ret.user = NoUser
    /\ ~pollIdValidations[ret.pollId].isValid
    /\ ret.error = pollIdValidations[ret.pollId].error

\* C25: an authentication form has at most one onSubmit call in flight, a
\* submit that arrives while isSubmitting is true starts none, and
\* isSubmitting always returns to false once onSubmit resolves or throws.
C25_OneSubmitInFlight ==
    /\ [](ui.component = "AuthForm" => ui.inFlight <= 1)
    /\ [][(ui.component = "AuthForm" /\ ui.isSubmitting /\ ui'.submits # ui.submits)
          => ui'.inFlight = ui.inFlight]_vars
    /\ ((ui.component = "AuthForm" /\ ui.isSubmitting)
           ~> (ui.component = "AuthForm" /\ ~ui.isSubmitting /\ ~ui.rendered))

C25_Witness ==
    /\ ui.component = "AuthForm"
    /\ ui.submits >= 3
    /\ ui.inFlight = 1
    /\ ui.isSubmitting
    /\ ui.outcomes = <<"thrown">>

\* C26: once an AuthProvider is unmounted, neither the result of getSession
\* nor an auth state change event changes its session, user or loading;
\* while it is mounted, loading is false from the first of the two that is
\* delivered, and loading never goes back to true.
C26_NoUpdateAfterUnmount ==
    [][ui.component = "AuthProvider"
       => /\ ~ui.mounted
             => /\ ~ui'.mounted
                /\ ui'.session = ui.session
                /\ ui'.user = ui.user
                /\ ui'.loading = ui.loading
          /\ (ui.mounted /\ (ui'.getSession # ui.getSession \/ ui'.events # ui.events))
             => ~ui'.loading
          /\ ~ui.loading => ~ui'.loading
      ]_vars

C26_Witness ==
    /\ ui.component = "AuthProvider"
    /\ ~ui.mounted
    /\ ui.loading
    /\ ui.getSession = "returned"
    /\ ui.events >= 1

\* C27: whenever storage holds one or more votes of a user on a poll, a
\* submitVote call of that user on that poll that reaches its existing-vote
\* lookup ends there with 'already voted' and inserts nothing.
C27_VoterStaysBlocked ==
    [][\A p \in Procs :
          (/\ calls[p].pc = "lookup"
           /\ calls'[p].pc # "lookup"
           /\ Cardinality(VotesOfUser(calls[p].pollId, calls[p].user.id)) >= 1)
          => /\ calls'[p].pc = "idle"
             /\ ret'.error = AlreadyVoted
             /\ votes' = votes]_vars

\* C28: a userVote that getPollResults returns is an index into the options
\* of the poll it returns, and the result at that index counts at least one
\* vote.
C28_UserVoteIsCountedOption ==
    (ret.op = "getPollResults" /\ ret.error = NoError /\ ret.data[1].userVote # NoVote)
    => /\ ret.data[1].userVote >= 0
       /\ ret.data[1].userVote < Len(ret.data[1].poll.options)
       /\ ret.data[1].results[ret.data[1].userVote + 1].count >= 1

\* C29: the output of sanitizeString holds no '<' or '>', no 'javascript:' in
\* any letter case, no match of 'on', word characters and '=', and no white
\* space at its start or end.
C29_SanitizedIsClean ==
    probe.fn = "sanitizeString" /\ probe.stage >= 1
    => LET output == probe.output
       IN  /\ \A k \in 1..Len(output) :
                 /\ output[k] \notin {"<", ">"}
                 /\ ~JavascriptAt(output, k)
                 /\ EventHandlerAt(output, k) = 0
           /\ output # <<>> => ~IsSpace(output[1]) /\ ~IsSpace(output[Len(output)])

\* C30: a route and the server action behind the same operation are
\* equivalent: from the same storage, with the same session and input, the
\* PUT route and updatePoll, the DELETE route and deletePoll, and the POST
\* vote route and submitVote answer with the same class of outcome and leave
\* the same storage.
ValidationErrors ==
    {questionValidations[question].error : question \in Questions}
    \cup {optionsValidations[options].error : options \in OptionLists}
    \cup {pollIdValidations[pollId].error : pollId \in PollIds}
    \cup {"Invalid option index.", "Option index out of bounds."}

OutcomeClass(error) ==
    IF error = NoError THEN "success"
    ELSE IF error \in ValidationErrors THEN "validation"
    ELSE IF error \in {"You must be logged in to update a poll.",
                       "You must be logged in to delete a poll."}
    THEN "authorization"
    ELSE IF error = "Poll not found." THEN "not-found"
    ELSE IF error = AlreadyVoted THEN "conflict"
    ELSE "storage"

C30_RoutesMatchActions ==
    [][(ret = NoRet /\ ret' # NoRet /\ ret'.entry = "route")
       => \A class \in {OutcomeClass(ret'.error)}, after \in {storage'},
             user \in {ret'.user}, pollId \in {ret'.pollId} :
             /\ ret'.op = "updatePoll"
                => \A question \in FewQuestions, options \in FewOptionLists :
                      PollPUT(user, pollId, question, options)
                      => ENABLED (/\ updatePoll(user, pollId, question, options)
                                  /\ OutcomeClass(ret'.error) = class
                                  /\ storage' = after)
             /\ ret'.op = "deletePoll"
                => (PollDELETE(user, pollId)
                    => ENABLED (/\ deletePoll(user, pollId)
                                /\ OutcomeClass(ret'.error) = class
                                /\ storage' = after))
             /\ (ret'.op = "submitVote" /\ InFlight = {})
                => \A optionIndex \in OptionIndexes :
                      VotePOSTLoad(1, user, pollId, optionIndex)
                      => ENABLED (/\ submitVoteLoad(1, user, pollId, optionIndex)
                                  /\ OutcomeClass(ret'.error) = class
                                  /\ storage' = after)
      ]_vars

=============================================================================
